---- MODULE Spec2Model ----
(***************************************************************************)
(* Zy Browser, renderer process: the multi-tab TabManager of               *)
(* src/renderer/renderer.js (lines 349-759) as a state machine.            *)
(*                                                                         *)
(* A tab id is the string 'tab-' + Date.now(); the prefix is fixed, so the *)
(* id is modelled by the clock value itself.  The DOM is modelled by the   *)
(* two element lists the code walks: the tab buttons of #tab-bar and the   *)
(* webviews of #views-container, both in document order, so that           *)
(* getElementById returns the FIRST element carrying an id.                *)
(* An uncaught TypeError ends the running handler and keeps every          *)
(* assignment made before it; the record field "threw" says so.            *)
(* The webviews' events (loading, title, navigation), the address bar and  *)
(* formatUrl have specifications of their own, over the same variables.    *)
(***************************************************************************)
EXTENDS Integers, Sequences, FiniteSets, TLC

VARIABLES
    tabs,             \* state.tabs: sequence of [id, url, title, isLoading]
    activeTabId,      \* state.activeTabId
    isSplitView,      \* state.isSplitView
    splitTabId,       \* state.splitTabId
    tabBar,           \* children of #tab-bar: sequence of [id, active, title]
    views,            \* webviews of #views-container: sequence of
                      \*   [id, display, src, url, canGoBack, canGoForward,
                      \*    loading]; url, canGoBack, canGoForward and loading
                      \*   are the webview's own state (getURL(), ..., and
                      \*   whether it is between did-start-loading and
                      \*   did-stop-loading)
    containerDisplay, \* elements.viewsContainer.style.display
    urlInput,         \* elements.urlInput.value
    btnBackDisabled,  \* elements.btnBack.disabled
    btnForwardDisabled, \* elements.btnForward.disabled
    urlFocused,       \* document.activeElement === elements.urlInput
    loadingBar,       \* elements.loadingBar.classList: [loading, complete]
    pendingResets,    \* pending setTimeout callbacks of updateLoading
    docTitle,         \* document.title
    fmtIn,            \* the argument formatUrl is called with
    fmtOut,           \* what formatUrl returned
    localStorage,     \* window.localStorage: the items 'zy-settings' and
                      \*   'zy-sessions'
    currentSettings,  \* currentSettings of the settings window
    sessionList,      \* the entries elements.sessionList shows
    listening,        \* the windows whose DOMContentLoaded listener has
                      \*   attached the listeners of the controls
    reply,            \* how the last invoke('save-screenshot') settled
    now,              \* the value Date.now() returns
    issued,           \* the ids createTab has returned so far
    last              \* the handler that ran last, its argument and what it
                      \*   found: [op, id, threw, len, wasActive, index]

vars == <<tabs, activeTabId, isSplitView, splitTabId, tabBar, views,
          containerDisplay, urlInput, btnBackDisabled, btnForwardDisabled,
          urlFocused, loadingBar, pendingResets, docTitle, fmtIn, fmtOut,
          localStorage, currentSettings, sessionList, listening, reply,
          now, issued, last>>

prog == <<tabs, activeTabId, isSplitView, splitTabId, tabBar, views,
          containerDisplay, urlInput, btnBackDisabled, btnForwardDisabled>>

chrome == <<urlFocused, loadingBar, pendingResets, docTitle>>

fmt == <<fmtIn, fmtOut>>

store == <<localStorage, currentSettings, sessionList, listening, reply>>

----------------------------------------------------------------------------
(* Bounds *)

MaxTabs == 3
MaxNow == 2
MaxEvTabs == 2      \* tabs open at once while the webviews' events are modelled
MaxTimers == 2      \* pending callbacks of updateLoading
MaxLen == 4         \* pieces of a text handed to formatUrl

(* null *)
NoTab == -1

HOME == "home.html"
\* document.title as index.html sets it (the page is not part of the source)
PAGE_TITLE == "index.html"
Urls == {HOME, "https://a.b"}
\* titles a page reports ('' is what title || 'Untitled' provides for)
Titles == {"", "T1", "T2"}
Ids == 0..MaxNow

----------------------------------------------------------------------------
(* DOM and array helpers *)

\* Array.prototype.findIndex / document.getElementById: the 1-based position
\* of the first entry with this id, 0 when there is none (-1 / null in JS).
FindIndex(seq, id) ==
    IF \E i \in 1..Len(seq) : seq[i].id = id
    THEN CHOOSE i \in 1..Len(seq) :
            /\ seq[i].id = id
            /\ \A j \in 1..(i - 1) : seq[j].id # id
    ELSE 0

GetElementById(els, id) == FindIndex(els, id)

RemoveAt(seq, i) ==
    [k \in 1..(Len(seq) - 1) |-> IF k < i THEN seq[k] ELSE seq[k + 1]]

\* state.tabs.splice(index, 1) with the 0-based index = i - 1; a negative
\* start counts from the end, so findIndex's -1 removes the LAST entry.
Splice1(seq, i) ==
    IF Len(seq) = 0 THEN seq
    ELSE IF i = 0 THEN RemoveAt(seq, Len(seq))
    ELSE RemoveAt(seq, i)

\* The program state as one record, threaded through a handler's statements.
St == [tabs |-> tabs, activeTabId |-> activeTabId, isSplitView |-> isSplitView,
       splitTabId |-> splitTabId, tabBar |-> tabBar, views |-> views,
       containerDisplay |-> containerDisplay, urlInput |-> urlInput,
       btnBackDisabled |-> btnBackDisabled,
       btnForwardDisabled |-> btnForwardDisabled,
       urlFocused |-> urlFocused, loadingBar |-> loadingBar,
       pendingResets |-> pendingResets, docTitle |-> docTitle,
       threw |-> FALSE, target |-> 0]

S0 == [tabs |-> << >>, activeTabId |-> NoTab, isSplitView |-> FALSE,
       splitTabId |-> NoTab, tabBar |-> << >>, views |-> << >>,
       containerDisplay |-> "block", urlInput |-> "",
       btnBackDisabled |-> FALSE, btnForwardDisabled |-> FALSE,
       urlFocused |-> FALSE,
       loadingBar |-> [loading |-> FALSE, complete |-> FALSE],
       pendingResets |-> 0, docTitle |-> PAGE_TITLE,
       threw |-> FALSE, target |-> 0]

----------------------------------------------------------------------------
(* TabManager *)

\* TabManager.getActiveWebview: position of the view, 0 for null.
getActiveWebview(s) == GetElementById(s.views, s.activeTabId)

\* Mutant: only the back button is refreshed.
updateNavigationButtons_backOnly(s) ==
    LET w == getActiveWebview(s)
    IN  IF w = 0 THEN s
        ELSE [s EXCEPT !.btnBackDisabled = ~s.views[w].canGoBack]

updateNavigationButtons(s) ==
    LET w == getActiveWebview(s)
    IN  IF w = 0 THEN s
        ELSE [s EXCEPT !.btnBackDisabled = ~s.views[w].canGoBack,
                       !.btnForwardDisabled = ~s.views[w].canGoForward]

\* switchTab, lines 464-468
RefreshAddressBar(s) ==
    LET w == getActiveWebview(s)
    IN  IF w = 0 THEN s
        ELSE updateNavigationButtons([s EXCEPT !.urlInput = s.views[w].url])

\* switchTab, lines 470-474: the split partner's view is shown again.
SplitVisibility(s) ==
    IF s.isSplitView /\ s.splitTabId # NoTab
    THEN LET k == GetElementById(s.views, s.splitTabId)
         IN  IF k = 0 THEN s
             ELSE [s EXCEPT !.views[k].display = "flex"]
    ELSE s

switchTab(s, tabId) ==
    LET s1 == [s EXCEPT !.activeTabId = tabId,
                        !.tabBar = [k \in DOMAIN s.tabBar |->
                                       [s.tabBar[k] EXCEPT !.active = FALSE]]]
        b  == GetElementById(s1.tabBar, tabId)
    IN  IF b = 0
        THEN [s1 EXCEPT !.threw = TRUE]  \* null.classList
        ELSE LET s2 == [s1 EXCEPT
                          !.tabBar[b].active = TRUE,
                          !.views = [k \in DOMAIN s1.views |->
                                       [s1.views[k] EXCEPT !.display =
                                          IF s1.views[k].id = tabId
                                          THEN "flex" ELSE "none"]]]
             IN  SplitVisibility(RefreshAddressBar(s2))

\* Mutant: the new tab is made active whatever activate says.
createTab_alwaysActivates(s, url, activate, tabId) ==
    switchTab([s EXCEPT
                 !.tabs = Append(@, [id |-> tabId, url |-> url,
                                     title |-> "New Tab", isLoading |-> TRUE]),
                 !.tabBar = Append(@, [id |-> tabId, active |-> FALSE,
                                       title |-> "New Tab"]),
                 !.views = Append(@, [id |-> tabId, display |-> "",
                                      src |-> url, url |-> url,
                                      canGoBack |-> FALSE,
                                      canGoForward |-> FALSE,
                                      loading |-> FALSE])],
              tabId)

createTab(s, url, activate, tabId) ==
    LET s1 == [s EXCEPT
                 !.tabs = Append(@, [id |-> tabId, url |-> url,
                                     title |-> "New Tab", isLoading |-> TRUE]),
                 !.tabBar = Append(@, [id |-> tabId, active |-> FALSE,
                                       title |-> "New Tab"]),
                 !.views = Append(@, [id |-> tabId, display |-> "",
                                      src |-> url, url |-> url,
                                      canGoBack |-> FALSE,
                                      canGoForward |-> FALSE,
                                      loading |-> FALSE])]
    IN  IF activate THEN switchTab(s1, tabId) ELSE s1

\* Mutant: the page that asked for the window is navigated itself.
newWindow_inPlace(s, k, url, tabId) ==
    [s EXCEPT !.views[k].src = url]

\* the 'new-window' listener of the k-th webview, line 441
newWindow(s, k, url, tabId) == createTab(s, url, TRUE, tabId)

\* Mutant: the previous tab is preferred over the one that moved into the hole.
SelectNeighbor_prevFirst(s, tabId, index) ==
    IF s.activeTabId # tabId THEN s
    ELSE IF (index - 1) \in 1..Len(s.tabs)
         THEN switchTab(s, s.tabs[index - 1].id)
    ELSE IF index \in 1..Len(s.tabs) THEN switchTab(s, s.tabs[index].id)
    ELSE [s EXCEPT !.threw = TRUE]

\* Mutant: the closed tab stays the active one.
SelectNeighbor_none(s, tabId, index) == s

\* closeTab, lines 489-493, after the record and the elements are gone.
\* Mutant: a neighbour is selected whichever tab was closed.
SelectNeighbor_always(s, tabId, index) ==
    IF index \in 1..Len(s.tabs) THEN switchTab(s, s.tabs[index].id)
    ELSE IF (index - 1) \in 1..Len(s.tabs)
         THEN switchTab(s, s.tabs[index - 1].id)
    ELSE [s EXCEPT !.threw = TRUE]

\* index is 1-based: state.tabs[index] of the code is position index here
\* (the entry that moved into the hole), state.tabs[index - 1] the one before.
SelectNeighbor(s, tabId, index) ==
    IF s.activeTabId # tabId THEN s
    ELSE IF index \in 1..Len(s.tabs) THEN switchTab(s, s.tabs[index].id)
    ELSE IF (index - 1) \in 1..Len(s.tabs)
         THEN switchTab(s, s.tabs[index - 1].id)
    ELSE [s EXCEPT !.threw = TRUE]  \* undefined.id

\* Mutant: the webview of the closed tab is left in the container.
RemoveTab_keepsView(s, tabId) ==
    LET index == FindIndex(s.tabs, tabId)
        s1 == [s EXCEPT !.tabs = Splice1(@, index)]
        b  == GetElementById(s1.tabBar, tabId)
    IN  IF b = 0 THEN [s1 EXCEPT !.threw = TRUE]
        ELSE SelectNeighbor([s1 EXCEPT !.tabBar = RemoveAt(@, b)],
                            tabId, index)

\* closeTab, lines 483-493: past the last-tab guard.
RemoveTab(s, tabId) ==
    LET index == FindIndex(s.tabs, tabId)
        s1 == [s EXCEPT !.tabs = Splice1(@, index)]
        b  == GetElementById(s1.tabBar, tabId)
    IN  IF b = 0 THEN [s1 EXCEPT !.threw = TRUE]  \* null.remove()
        ELSE LET s2 == [s1 EXCEPT !.tabBar = RemoveAt(@, b)]
                 v  == GetElementById(s2.views, tabId)
             IN  IF v = 0 THEN [s2 EXCEPT !.threw = TRUE]
                 ELSE SelectNeighbor([s2 EXCEPT !.views = RemoveAt(@, v)],
                                     tabId, index)

\* Mutant: the last-tab guard is `< 1`.
closeTab_lastTabCloses(s, tabId) ==
    IF Len(s.tabs) < 1 THEN s ELSE RemoveTab(s, tabId)

closeTab(s, tabId) ==
    IF Len(s.tabs) <= 1 THEN s ELSE RemoveTab(s, tabId)

\* Mutant: the address bar follows every tab's navigation.
updateUrl_anyTab(s, tabId, url) ==
    updateNavigationButtons([s EXCEPT !.urlInput = url])

updateUrl(s, tabId, url) ==
    IF tabId = s.activeTabId
    THEN updateNavigationButtons([s EXCEPT !.urlInput = url])
    ELSE s


\* updateLoading, lines 503-515.  The setTimeout of line 511 is one more
\* pending callback.
updateLoading_anyTab(s, tabId, isLoading) ==
    updateNavigationButtons(
        IF isLoading
        THEN [s EXCEPT !.loadingBar = [loading |-> TRUE, complete |-> FALSE]]
        ELSE [s EXCEPT !.loadingBar = [loading |-> FALSE, complete |-> TRUE],
                       !.pendingResets = @ + 1])

updateLoading(s, tabId, isLoading) ==
    IF tabId = s.activeTabId
    THEN updateNavigationButtons(
        IF isLoading
        THEN [s EXCEPT !.loadingBar = [loading |-> TRUE, complete |-> FALSE]]
        ELSE [s EXCEPT !.loadingBar = [loading |-> FALSE, complete |-> TRUE],
                       !.pendingResets = @ + 1])
    ELSE s

\* Mutant: the callback clears the whole loading bar.
ResetComplete_clearsAll(s) ==
    [s EXCEPT !.loadingBar = [loading |-> FALSE, complete |-> FALSE],
              !.pendingResets = @ - 1]

\* the callback of line 511
ResetComplete(s) ==
    [s EXCEPT !.loadingBar.complete = FALSE, !.pendingResets = @ - 1]

\* `${title} - Zy Browser`, line 520
WindowTitle(title) == title \o " - Zy Browser"

\* title || 'Untitled', line 519
LabelOf(title) == IF title = "" THEN "Untitled" ELSE title

\* Mutant: the window title follows every tab's title.
updateTitle_anyTab(s, tabId, title) ==
    LET b  == GetElementById(s.tabBar, tabId)
        s1 == IF b = 0 THEN s
              ELSE [s EXCEPT !.tabBar[b].title = LabelOf(title)]
    IN  [s1 EXCEPT !.docTitle = WindowTitle(title)]

\* updateTitle, lines 517-521
updateTitle(s, tabId, title) ==
    LET b  == GetElementById(s.tabBar, tabId)
        s1 == IF b = 0 THEN s
              ELSE [s EXCEPT !.tabBar[b].title = LabelOf(title)]
    IN  IF tabId = s.activeTabId
        THEN [s1 EXCEPT !.docTitle = WindowTitle(title)]
        ELSE s1

----------------------------------------------------------------------------
(* formatUrl, lines 645-651.  A text is a sequence of pieces, each piece a  *)
(* run of characters that every operation of formatUrl treats alike: a      *)
(* letter, a dot, a space, a tab, a scheme with its '://', or a surrogate   *)
(* code unit without its partner.                                          *)

Schemes == {"http://", "HTTPS://"}

Whitespace == {" ", "\t"}

\* a high surrogate that no low surrogate follows
Surrogate == "\\uD800"

Chars == {"a", ".", " ", "\t", Surrogate} \cup Schemes

Texts == UNION {[1..n -> Chars] : n \in 0..MaxLen}

\* no argument at all (undefined)
Missing == <<"undefined">>

Inputs == Texts \cup {Missing}

SEARCH == "https://www.google.com/search?q="

\* the characters of a text
RECURSIVE Str(_)
Str(text) == IF text = << >> THEN "" ELSE Head(text) \o Str(Tail(text))

\* String.prototype.includes, for a piece c
Includes(text, c) == \E i \in DOMAIN text : text[i] = c

\* String.prototype.trim
RECURSIVE TrimStart(_)
TrimStart(text) ==
    IF text # << >> /\ Head(text) \in Whitespace
    THEN TrimStart(Tail(text))
    ELSE text

RECURSIVE TrimEnd(_)
TrimEnd(text) ==
    IF text # << >> /\ text[Len(text)] \in Whitespace
    THEN TrimEnd(SubSeq(text, 1, Len(text) - 1))
    ELSE text

Trim(text) == TrimEnd(TrimStart(text))

\* what stands for the exception encodeURIComponent throws
URIError == <<"URIError: URI malformed">>

\* encodeURIComponent, piece by piece: letters and dots are kept, every
\* other character becomes its %XX escape; a lone surrogate has no UTF-8
\* encoding and makes the call throw
Escape(c) ==
    CASE c = " "        -> "%20"
      [] c = "\t"       -> "%09"
      [] c = "http://"  -> "http%3A%2F%2F"
      [] c = "HTTPS://" -> "HTTPS%3A%2F%2F"
      [] OTHER          -> c

encodeURIComponent(text) ==
    IF Includes(text, Surrogate) THEN URIError
    ELSE [i \in DOMAIN text |-> Escape(text[i])]

\* /^https?:\/\//i.test(url)
StartsWithScheme(url) == url # << >> /\ Head(url) \in Schemes

formatUrl(input) ==
    IF input = Missing \/ input = << >> THEN <<HOME>>
    ELSE LET url == Trim(input)
         IN  IF Includes(url, " ") \/ ~Includes(url, ".")
             THEN LET q == encodeURIComponent(url)
                  IN  IF q = URIError THEN URIError ELSE <<SEARCH>> \o q
             ELSE IF ~StartsWithScheme(url)
             THEN <<"https://">> \o url
             ELSE url

\* texts the user types into the address bar: a domain, two words, and a
\* text that encodeURIComponent cannot encode
TypedTexts == {<<"a", ".", "a">>, <<"a", " ", "a">>, <<Surrogate>>}

\* the same as the strings elements.urlInput.value holds
Typed == {Str(text) : text \in TypedTexts}

\* the pieces of a typed string
TextOf(value) == CHOOSE text \in TypedTexts : Str(text) = value

\* navigateTo, lines 616-619
navigateTo(s, url) ==
    LET w == getActiveWebview(s)
    IN  IF w = 0 THEN s
        ELSE IF formatUrl(url) = URIError THEN [s EXCEPT !.threw = TRUE]
        ELSE [s EXCEPT !.views[w].src = Str(formatUrl(url)), !.target = w]

\* the 'keydown' listener of the address bar for Enter, lines 664-669:
\* the blur is not reached when navigateTo throws
keydownEnter(s) ==
    LET s1 == navigateTo(s, TextOf(s.urlInput))
    IN  IF s1.threw THEN s1 ELSE [s1 EXCEPT !.urlFocused = FALSE]

\* the same listener for any other key, Escape included: no branch applies
keydownOther(s) == s

----------------------------------------------------------------------------
(* Navigation helpers, lines 616-634.  A method called on a webview is    *)
(* recorded in the field "target": the position of the webview, 0 if none  *)
(* was called.                                                             *)

\* Mutant: the webview is the one that was active at startup.
reload_firstView(s) ==
    IF s.views = << >> THEN s ELSE [s EXCEPT !.target = 1]

reload(s) ==
    LET w == getActiveWebview(s)
    IN  IF w = 0 THEN s ELSE [s EXCEPT !.target = w]

goBack(s) ==
    LET w == getActiveWebview(s)
    IN  IF w # 0 /\ s.views[w].canGoBack
        THEN [s EXCEPT !.target = w]
        ELSE s

goForward(s) ==
    LET w == getActiveWebview(s)
    IN  IF w # 0 /\ s.views[w].canGoForward
        THEN [s EXCEPT !.target = w]
        ELSE s

----------------------------------------------------------------------------
(* Split view toggle, the click listener of #btn-split-view *)

\* lines 717-733: the first two tabs side by side.
EnableSplit(s) ==
    LET hidden == [k \in DOMAIN s.views |->
                      [s.views[k] EXCEPT !.display = "none"]]
        v1 == GetElementById(hidden, s.tabs[1].id)
        shown1 == IF v1 = 0 THEN hidden
                  ELSE [hidden EXCEPT ![v1].display = "flex"]
        v2 == GetElementById(shown1, s.tabs[2].id)
        shown2 == IF v2 = 0 THEN shown1
                  ELSE [shown1 EXCEPT ![v2].display = "flex"]
    IN  [s EXCEPT !.containerDisplay = "grid",
                  !.views = shown2,
                  !.splitTabId = s.tabs[2].id]

\* Mutant: disabling keeps the stale split partner.
DisableSplit_keepsPartner(s) ==
    switchTab([s EXCEPT !.containerDisplay = "block"], s.activeTabId)

\* lines 735-741: back to one pane, showing the active tab.
DisableSplit(s) ==
    switchTab([s EXCEPT !.containerDisplay = "block", !.splitTabId = NoTab],
              s.activeTabId)

\* (the 'active' class of the button itself always equals state.isSplitView)
toggleSplitView(s) ==
    LET s1 == [s EXCEPT !.isSplitView = ~s.isSplitView]
    IN  IF s1.isSplitView /\ Len(s1.tabs) >= 2
        THEN EnableSplit(s1)
        ELSE DisableSplit(s1)

----------------------------------------------------------------------------
(* localStorage and JSON *)

StorageKeys == {"zy-settings", "zy-sessions"}

\* A JSON value: its type and its own enumerable properties (the fields of
\* an object, the elements of an array; null and numbers have none).
JNull == [type |-> "null", props |-> << >>]
JNumber == [type |-> "number", props |-> << >>]
JObject(fields) == [type |-> "object", props |-> fields]
JArray(elements) == [type |-> "array", props |-> elements]

\* What JSON.parse throws
SyntaxError == [type |-> "SyntaxError", props |-> << >>]

\* An item of localStorage: absent (getItem returns null), the empty
\* string, a text that is not JSON, or the JSON text of a value.
Absent == [kind |-> "absent", value |-> JNull]
Empty == [kind |-> "empty", value |-> JNull]
Malformed == [kind |-> "malformed", value |-> JNull]

\* JSON.stringify of a value made of objects, arrays, strings, numbers and
\* booleans: the text that parses back to that value
JSONstringify(v) == [kind |-> "json", value |-> v]

\* JSON.parse: the value of a JSON text; the empty string and every other
\* text that is not JSON throw a SyntaxError
JSONparse(item) ==
    IF item.kind = "json" THEN item.value ELSE SyntaxError

\* !item: null and '' are falsy, every other text is truthy
Falsy(item) == item.kind \in {"absent", "empty"}

\* { ...a, ...b } on property maps
Merge(a, b) ==
    [k \in DOMAIN a \cup DOMAIN b |-> IF k \in DOMAIN b THEN b[k] ELSE a[k]]

\* ...v inside an object literal: the own enumerable properties of v, an
\* array's being its elements under the keys "0", "1", ...
Spread(v) ==
    IF v.type = "object" THEN v.props
    ELSE IF v.type = "array"
    THEN [k \in {ToString(i - 1) : i \in DOMAIN v.props} |->
             v.props[CHOOSE i \in DOMAIN v.props : ToString(i - 1) = k]]
    ELSE << >>

\* obj[key] = value
SetProp(obj, key, value) ==
    [k \in DOMAIN obj \cup {key} |-> IF k = key THEN value ELSE obj[k]]

\* !obj[key]: the property is missing or the empty string
NoProp(obj, key) == key \notin DOMAIN obj \/ obj[key] = ""

----------------------------------------------------------------------------
(* The settings window *)

\* booleans are written as the texts "true" and "false"
defaultSettings ==
    [theme |-> "dark", showHomeButton |-> "true", searchEngine |-> "google",
     clearOnExit |-> "false", blockThirdPartyCookies |-> "true",
     doNotTrack |-> "true", location |-> "", askDownload |-> "false",
     hardwareAcceleration |-> "true"]

Recognized == DOMAIN defaultSettings

\* what window.zyAPI.getDefaultDownloadPath() resolves to:
\* app.getPath('downloads')
DOWNLOADS == "/home/u/Downloads"

\* the other value of every setting, and a key this version does not know
otherSettings ==
    [theme |-> "light", showHomeButton |-> "false", searchEngine |-> "bing",
     clearOnExit |-> "true", blockThirdPartyCookies |-> "false",
     doNotTrack |-> "false", location |-> "/d", askDownload |-> "true",
     hardwareAcceleration |-> "false", legacy |-> "x"]

\* the records an earlier run or an earlier version may have stored: any
\* of the keys missing, an unknown key present
StoredSettings ==
    {[k \in K |-> otherSettings[k]] : K \in SUBSET DOMAIN otherSettings}

SettingsItems ==
    {Absent, Empty, Malformed}
        \cup {JSONstringify(JObject(o)) : o \in StoredSettings}
        \cup {JSONstringify(JNull), JSONstringify(JNumber),
              JSONstringify(JArray(<<"x">>))}

\* loadSettings without its try/catch
loadSettings_uncaught(storage, current) ==
    LET saved == storage["zy-settings"]
        parsed == JSONparse(saved)
        merged == IF Falsy(saved) \/ parsed = SyntaxError THEN current
                  ELSE Merge(defaultSettings, Spread(parsed))
    IN  IF ~Falsy(saved) /\ parsed = SyntaxError
        THEN [settings |-> current, threw |-> TRUE]
        ELSE [settings |-> IF NoProp(merged, "location")
                           THEN SetProp(merged, "location", DOWNLOADS)
                           ELSE merged,
              threw |-> FALSE]

\* loadSettings: the settings it leaves in currentSettings and whether it
\* threw (rejected)
loadSettings(storage, current) ==
    LET saved == storage["zy-settings"]
        parsed == JSONparse(saved)
        \* try { ... } catch (e) { console.error(...) }
        merged == IF Falsy(saved) \/ parsed = SyntaxError THEN current
                  ELSE Merge(defaultSettings, Spread(parsed))
    IN  [settings |-> IF NoProp(merged, "location")
                      THEN SetProp(merged, "location", DOWNLOADS)
                      ELSE merged,
         threw |-> FALSE]

\* saveSettings: the localStorage it leaves
saveSettings(storage, current) ==
    [storage EXCEPT !["zy-settings"] = JSONstringify(JObject(current))]

----------------------------------------------------------------------------
(* SidebarManager: sessions *)

MaxSessions == 2    \* sessions saved in localStorage

\* a session an earlier run has saved
OldSession == [date |-> 0, count |-> 1, urls |-> <<HOME>>]

SessionItems ==
    {Absent, Empty, Malformed,
     JSONstringify(JArray(<< >>)), JSONstringify(JArray(<<OldSession>>)),
     JSONstringify(JNull), JSONstringify(JObject(<< >>))}

\* JSON.parse(localStorage.getItem('zy-sessions') || '[]')
ParseSessions(storage) ==
    LET item == storage["zy-sessions"]
    IN  IF Falsy(item) THEN JArray(<< >>) ELSE JSONparse(item)

\* loadSessions of setupSessions: the entries it renders into
\* elements.sessionList; it throws when JSON.parse does and when the value
\* has no map method
loadSessions(storage) ==
    LET sessions == ParseSessions(storage)
    IN  IF sessions = SyntaxError \/ sessions.type # "array"
        THEN [list |-> << >>, threw |-> TRUE]
        ELSE [list |-> [i \in DOMAIN sessions.props |->
                           [date |-> sessions.props[i].date,
                            count |-> sessions.props[i].count]],
              threw |-> FALSE]

\* the click listener of #btn-save-session: the localStorage it leaves and
\* whether it threw; it throws when a tab has no webview, when JSON.parse
\* does and when the value has no push method
saveSession(s, storage, date) ==
    LET orphan == \E i \in DOMAIN s.tabs :
                      GetElementById(s.views, s.tabs[i].id) = 0
        sessions == ParseSessions(storage)
    IN  IF orphan \/ sessions = SyntaxError \/ sessions.type # "array"
        THEN [storage |-> storage, threw |-> TRUE]
        ELSE LET session ==
                     [date |-> date, count |-> Len(s.tabs),
                      urls |-> [i \in DOMAIN s.tabs |->
                                   s.views[GetElementById(s.views,
                                               s.tabs[i].id)].src]]
             IN  [storage |->
                      [storage EXCEPT !["zy-sessions"] =
                           JSONstringify(JArray(Append(sessions.props,
                                                       session)))],
                  threw |-> FALSE]

----------------------------------------------------------------------------
(* The main process: ipcMain.handle('save-screenshot') *)

\* what a renderer passes to invoke('save-screenshot'): nothing, null, an
\* object with a buffer property, an object without one
Payloads == {"undefined", "null", "{buffer}", "{}"}

\* nothing has been invoked
NoReply == [settled |-> "none", success |-> FALSE, value |-> ""]

\* the path the handler builds: Downloads and the file name with the
\* timestamp
FilePath(time) == DOWNLOADS \o "/Zy-Screenshot-" \o ToString(time) \o ".png"

\* The promise the handler returns. Binding the parameter { buffer } to
\* undefined or null throws a TypeError before the try block is entered,
\* which rejects the promise; Buffer.from(undefined) and a failing
\* fs.writeFileSync (writable is FALSE) throw inside the try block.
saveScreenshot(payload, time, writable) ==
    IF payload \in {"undefined", "null"}
    THEN [settled |-> "rejected", success |-> FALSE, value |-> "TypeError"]
    ELSE IF payload # "{buffer}"
    THEN [settled |-> "resolved", success |-> FALSE, value |-> "TypeError"]
    ELSE IF ~writable
    THEN [settled |-> "resolved", success |-> FALSE, value |-> "EACCES"]
    ELSE [settled |-> "resolved", success |-> TRUE, value |-> FilePath(time)]

----------------------------------------------------------------------------
(* The state machine *)

\* What the handler that runs now finds: the number of tabs and, for
\* closeTab, whether its argument is the active tab and the argument's
\* position in state.tabs.
Found(op, id, threw) ==
    [op |-> op, id |-> id, threw |-> threw,
     len |-> IF op \in {"closeTab", "toggleSplit"} THEN Len(tabs) ELSE 0,
     wasActive |-> (op = "closeTab" /\ activeTabId = id),
     index |-> IF op = "closeTab" THEN FindIndex(tabs, id) ELSE 0,
     arg |-> "", flag |-> FALSE]

AssignWindow(r) ==
    /\ tabs' = r.tabs
    /\ activeTabId' = r.activeTabId
    /\ isSplitView' = r.isSplitView
    /\ splitTabId' = r.splitTabId
    /\ tabBar' = r.tabBar
    /\ views' = r.views
    /\ containerDisplay' = r.containerDisplay
    /\ urlInput' = r.urlInput
    /\ btnBackDisabled' = r.btnBackDisabled
    /\ btnForwardDisabled' = r.btnForwardDisabled
    /\ urlFocused' = r.urlFocused
    /\ loadingBar' = r.loadingBar
    /\ pendingResets' = r.pendingResets
    /\ docTitle' = r.docTitle

Assign(r) ==
    /\ AssignWindow(r)
    /\ UNCHANGED <<fmt, store>>

Apply(r, op, id) ==
    /\ Assign(r)
    /\ last' = Found(op, id, r.threw)

\* the same for a handler that is passed a value (a title, an address, a flag)
ApplyArg(r, op, id, arg) ==
    /\ Assign(r)
    /\ last' = [Found(op, id, r.threw) EXCEPT !.arg = arg]

\* the same for a handler that calls a method of a webview: the history
\* records the position of that webview
ApplyCall(r, op) ==
    /\ Assign(r)
    /\ last' = [Found(op, NoTab, r.threw) EXCEPT !.index = r.target]

\* the same for createTab(url, activate)
ApplyCreate(r, id, url, activate) ==
    /\ Assign(r)
    /\ last' = [Found("createTab", id, r.threw) EXCEPT !.arg = url,
                                                      !.flag = activate]

\* the window shows the state r
InitWindow(r) ==
    /\ tabs = r.tabs
    /\ activeTabId = r.activeTabId
    /\ isSplitView = r.isSplitView
    /\ splitTabId = r.splitTabId
    /\ tabBar = r.tabBar
    /\ views = r.views
    /\ containerDisplay = r.containerDisplay
    /\ urlInput = r.urlInput
    /\ btnBackDisabled = r.btnBackDisabled
    /\ btnForwardDisabled = r.btnForwardDisabled
    /\ urlFocused = r.urlFocused
    /\ loadingBar = r.loadingBar
    /\ pendingResets = r.pendingResets
    /\ docTitle = r.docTitle

\* nothing is stored, the settings window is not open, nothing was invoked
InitStore ==
    /\ localStorage = [k \in StorageKeys |-> Absent]
    /\ currentSettings = defaultSettings
    /\ sessionList = << >>
    /\ reply = NoReply

\* DOMContentLoaded: TabManager.createTab() on the empty state.
InitProg ==
    /\ now = 0
    /\ InitWindow(createTab(S0, HOME, TRUE, 0))
    /\ InitStore
    /\ listening = {"index"}
    /\ fmtOut = ""
    /\ issued = {0}
    /\ last = [op |-> "init", id |-> 0, threw |-> FALSE, len |-> 0,
               wasActive |-> FALSE, index |-> 0,
               arg |-> "", flag |-> FALSE]

\* formatUrl has not been called
Init == InitProg /\ fmtIn = << >>

\* The state a click listener starts in: the mouse press on an element
\* other than the address bar has taken the focus from the address bar.
Clicked == [St EXCEPT !.urlFocused = FALSE]

\* The wall clock advances between two handlers.
Tick ==
    /\ now < MaxNow
    /\ now' = now + 1
    /\ last' = Found("tick", NoTab, FALSE)
    /\ UNCHANGED <<prog, chrome, fmt, store, issued>>

\* click on #btn-new-tab: TabManager.createTab()
ClickNewTab ==
    /\ "index" \in listening
    /\ Len(tabs) < MaxTabs
    /\ ApplyCreate(createTab(Clicked, HOME, TRUE, now), now, HOME, TRUE)
    /\ issued' = issued \cup {now}
    /\ UNCHANGED now

\* 'new-window' from the k-th webview: TabManager.createTab(e.url); the
\* history records the position of that webview and whether its tab was
\* the active one
NewWindow ==
    \E k \in DOMAIN views, url \in Urls :
        /\ Len(tabs) < MaxTabs
        /\ Assign(newWindow(St, k, url, now))
        /\ last' = [Found("createTab", now, newWindow(St, k, url, now).threw)
                       EXCEPT !.arg = url, !.flag = TRUE, !.index = k,
                              !.wasActive = (views[k].id = activeTabId)]
        /\ issued' = issued \cup {now}
        /\ UNCHANGED now

\* 'did-navigate' / 'did-navigate-in-page' from the k-th webview, which has
\* committed the address url; the listener runs updateUrl(tabId, e.url).
\* The webview's history after the navigation allows going back or not,
\* and going forward or not.
DidNavigate ==
    \E k \in DOMAIN views, url \in Urls, back \in BOOLEAN, fwd \in BOOLEAN :
        /\ ApplyArg(updateUrl([St EXCEPT !.views[k].url = url,
                                         !.views[k].canGoBack = back,
                                         !.views[k].canGoForward = fwd],
                              views[k].id, url),
                    "updateUrl", views[k].id, url)
        /\ UNCHANGED <<now, issued>>

\* 'did-start-loading' from the k-th webview, which is not loading
DidStartLoading ==
    \E k \in DOMAIN views :
        /\ ~views[k].loading
        /\ ApplyArg(updateLoading([St EXCEPT !.views[k].loading = TRUE],
                                  views[k].id, TRUE),
                    "updateLoading", views[k].id, "true")
        /\ UNCHANGED <<now, issued>>

\* 'did-stop-loading' from the k-th webview, which is loading
DidStopLoading ==
    \E k \in DOMAIN views :
        /\ views[k].loading
        /\ pendingResets < MaxTimers
        /\ ApplyArg(updateLoading([St EXCEPT !.views[k].loading = FALSE],
                                  views[k].id, FALSE),
                    "updateLoading", views[k].id, "false")
        /\ UNCHANGED <<now, issued>>

\* a callback of line 511 runs, 600 ms after it was set
Timeout ==
    /\ pendingResets > 0
    /\ Apply(ResetComplete(St), "timeout", NoTab)
    /\ UNCHANGED <<now, issued>>

\* 'page-title-updated' from the k-th webview
PageTitleUpdated ==
    \E k \in DOMAIN views, title \in Titles :
        /\ ApplyArg(updateTitle(St, views[k].id, title),
                    "updateTitle", views[k].id, title)
        /\ UNCHANGED <<now, issued>>

\* click on the k-th tab button
ClickTab ==
    \E k \in DOMAIN tabBar :
        /\ Apply(switchTab(Clicked, tabBar[k].id), "switchTab", tabBar[k].id)
        /\ UNCHANGED <<now, issued>>

\* click on the close button of the k-th tab button
ClickClose ==
    \E k \in DOMAIN tabBar :
        /\ Apply(closeTab(Clicked, tabBar[k].id), "closeTab", tabBar[k].id)
        /\ UNCHANGED <<now, issued>>

\* click on #btn-split-view
ClickSplitView ==
    /\ Apply(toggleSplitView(Clicked), "toggleSplit", NoTab)
    /\ UNCHANGED <<now, issued>>

Next ==
    \/ Tick
    \/ ClickNewTab
    \/ NewWindow
    \/ ClickTab
    \/ ClickClose
    \/ ClickSplitView

\* Tab management as the user drives it: every handler is reached through
\* the element or the webview it was registered on.
Spec == Init /\ [][Next]_vars


----------------------------------------------------------------------------
(* TabManager called directly, with any id and any arguments *)

\* (a record removed without its elements leaves the elements behind, so
\* the element lists are bounded on their own)
CallCreateTab ==
    \E url \in Urls, activate \in BOOLEAN :
        /\ Len(tabs) < MaxTabs
        /\ Len(tabBar) < MaxTabs
        /\ ApplyCreate(createTab(St, url, activate, now), now, url, activate)
        /\ issued' = issued \cup {now}
        /\ UNCHANGED now

CallSwitchTab ==
    \E id \in Ids :
        /\ Apply(switchTab(St, id), "switchTab", id)
        /\ UNCHANGED <<now, issued>>

CallCloseTab ==
    \E id \in Ids :
        /\ Apply(closeTab(St, id), "closeTab", id)
        /\ UNCHANGED <<now, issued>>

NextApi ==
    \/ Tick
    \/ CallCreateTab
    \/ CallSwitchTab
    \/ CallCloseTab
    \/ ClickSplitView

SpecApi == Init /\ [][NextApi]_vars

\* createTab called with any url and either value of activate, among the
\* clicks on the tab buttons
NextCreate ==
    \/ Tick
    \/ CallCreateTab
    \/ ClickTab
    \/ ClickClose

SpecCreate == Init /\ [][NextCreate]_vars

----------------------------------------------------------------------------
(* The same two machines on the runs in which the clock has advanced since *)
(* the last createTab, so that no id is handed out twice                   *)

FreshClock == now \notin issued

NextFresh ==
    \/ Tick
    \/ (FreshClock /\ ClickNewTab)
    \/ (FreshClock /\ NewWindow)
    \/ ClickTab
    \/ ClickClose
    \/ ClickSplitView

SpecFresh == Init /\ [][NextFresh]_vars

NextApiFresh ==
    \/ Tick
    \/ (FreshClock /\ CallCreateTab)
    \/ CallSwitchTab
    \/ CallCloseTab
    \/ ClickSplitView

SpecApiFresh == Init /\ [][NextApiFresh]_vars

----------------------------------------------------------------------------
(* The webviews' events and the address bar, with at most MaxEvTabs tabs    *)
(* open; fresh = TRUE keeps to the runs in which no id is handed out twice  *)

OpenTab(fresh) ==
    /\ fresh => FreshClock
    /\ Len(tabs) < MaxEvTabs
    /\ ClickNewTab

\* a page opens a window: nothing is clicked, the focus stays where it is
OpenWindow(fresh) ==
    /\ fresh => FreshClock
    /\ Len(tabs) < MaxEvTabs
    /\ NewWindow

\* the address bar receives the focus (a click into it); its 'focus'
\* listener selects the text and leaves the value alone, line 671
FocusUrl ==
    /\ ~urlFocused
    /\ Apply([St EXCEPT !.urlFocused = TRUE], "focus", NoTab)
    /\ UNCHANGED <<now, issued>>

\* the user edits the text of the focused address bar
TypeUrl ==
    \E text \in Typed :
        /\ urlFocused
        /\ ApplyArg([St EXCEPT !.urlInput = text], "type", NoTab, text)
        /\ UNCHANGED <<now, issued>>

\* the history of the k-th webview changes (its page navigates, goes back
\* or forward); the events that tell the renderer arrive later
HistoryChanged ==
    \E k \in DOMAIN views, back \in BOOLEAN, fwd \in BOOLEAN :
        /\ <<back, fwd>> # <<views[k].canGoBack, views[k].canGoForward>>
        /\ Apply([St EXCEPT !.views[k].canGoBack = back,
                            !.views[k].canGoForward = fwd],
                 "history", views[k].id)
        /\ UNCHANGED <<now, issued>>

\* click on #btn-reload
ClickReload ==
    /\ ApplyCall(reload(Clicked), "reload")
    /\ UNCHANGED <<now, issued>>

\* click on #btn-back, which is not disabled
ClickBack ==
    /\ ~btnBackDisabled
    /\ ApplyCall(goBack(Clicked), "goBack")
    /\ UNCHANGED <<now, issued>>

\* click on #btn-forward, which is not disabled
ClickForward ==
    /\ ~btnForwardDisabled
    /\ ApplyCall(goForward(Clicked), "goForward")
    /\ UNCHANGED <<now, issued>>

NextButtons ==
    \/ Tick
    \/ OpenTab(FALSE)
    \/ ClickTab
    \/ ClickClose
    \/ HistoryChanged
    \/ ClickReload
    \/ ClickBack
    \/ ClickForward

SpecButtons == Init /\ [][NextButtons]_vars

NextLoad(fresh) ==
    \/ Tick
    \/ OpenTab(fresh)
    \/ ClickTab
    \/ ClickClose
    \/ DidStartLoading
    \/ DidStopLoading
    \/ Timeout

SpecLoad == Init /\ [][NextLoad(FALSE)]_vars

SpecLoadFresh == Init /\ [][NextLoad(TRUE)]_vars

NextTitle ==
    \/ Tick
    \/ OpenTab(FALSE)
    \/ ClickTab
    \/ ClickClose
    \/ PageTitleUpdated

SpecTitle == Init /\ [][NextTitle]_vars

NextNav ==
    \/ Tick
    \/ OpenTab(FALSE)
    \/ ClickTab
    \/ ClickClose
    \/ DidNavigate

SpecNav == Init /\ [][NextNav]_vars

\* Enter in the focused address bar, which holds a typed text
PressEnter ==
    /\ urlFocused
    /\ urlInput \in Typed
    /\ ApplyCall(keydownEnter(St), "enter")
    /\ UNCHANGED <<now, issued>>

\* Escape in the focused address bar; the key itself does nothing to a
\* text input
PressEscape ==
    /\ urlFocused
    /\ Apply(keydownOther(St), "escape", NoTab)
    /\ UNCHANGED <<now, issued>>

NextFocus ==
    \/ Tick
    \/ OpenTab(TRUE)
    \/ OpenWindow(TRUE)
    \/ ClickTab
    \/ ClickClose
    \/ FocusUrl
    \/ TypeUrl
    \/ PressEnter
    \/ PressEscape

SpecFocus == Init /\ [][NextFocus]_vars

----------------------------------------------------------------------------
(* formatUrl called on its own, with any text *)

\* formatUrl is handed a text and returns, or throws and returns nothing
Format ==
    /\ last.op # "formatUrl"
    /\ fmtOut' = IF formatUrl(fmtIn) = URIError THEN ""
                 ELSE Str(formatUrl(fmtIn))
    /\ last' = [Found("formatUrl", NoTab, formatUrl(fmtIn) = URIError)
                   EXCEPT !.arg = Str(fmtIn)]
    /\ UNCHANGED <<prog, chrome, fmtIn, store, now, issued>>

InitFmt == InitProg /\ fmtIn \in Inputs

SpecFmt == InitFmt /\ [][Format]_vars

----------------------------------------------------------------------------
(* The settings window is opened, used and closed *)

\* DOMContentLoaded of the settings window: await loadSettings();
\* setupListeners(); updateUI(). A rejected loadSettings ends the listener
\* before the controls get their listeners.
SettingsLoaded ==
    /\ "settings" \notin listening
    /\ last.op # "loadSettings"
    /\ LET r == loadSettings(localStorage, currentSettings)
       IN  /\ currentSettings' = r.settings
           /\ listening' = IF r.threw THEN listening
                           ELSE listening \cup {"settings"}
           /\ last' = Found("loadSettings", NoTab, r.threw)
    /\ UNCHANGED <<prog, chrome, fmt, localStorage, sessionList, reply,
                   now, issued>>

\* the controls bindChange binds, each with the values it offers
Controls ==
    {"theme", "showHomeButton", "searchEngine", "blockThirdPartyCookies",
     "doNotTrack", "askDownload", "hardwareAcceleration"}

\* 'change' on a control: currentSettings[key] = value; saveSettings()
ChangeSetting ==
    \E key \in Controls :
      \E value \in {defaultSettings[key], otherSettings[key]} :
        /\ "settings" \in listening
        /\ currentSettings' = SetProp(currentSettings, key, value)
        /\ localStorage' = saveSettings(localStorage, currentSettings')
        /\ last' = [Found("change", NoTab, FALSE) EXCEPT !.arg = key]
        /\ UNCHANGED <<prog, chrome, fmt, sessionList, listening, reply,
                       now, issued>>

\* click on #btn-change-loc: the dialog resolves to a directory, or to null
\* when it is cancelled
ClickChangeLocation ==
    \E path \in {"", "/d", "/e"} :
        /\ "settings" \in listening
        /\ currentSettings' = IF path = "" THEN currentSettings
                              ELSE SetProp(currentSettings, "location", path)
        /\ localStorage' = IF path = "" THEN localStorage
                           ELSE saveSettings(localStorage, currentSettings')
        /\ last' = [Found("changeLocation", NoTab, FALSE) EXCEPT !.arg = path]
        /\ UNCHANGED <<prog, chrome, fmt, sessionList, listening, reply,
                       now, issued>>

\* the settings window is closed and opened again: its script starts over
\* with currentSettings = { ...defaultSettings }
ReopenSettings ==
    /\ last.op \in {"loadSettings", "change", "changeLocation"}
    /\ currentSettings' = defaultSettings
    /\ listening' = listening \ {"settings"}
    /\ last' = Found("openSettings", NoTab, FALSE)
    /\ UNCHANGED <<prog, chrome, fmt, localStorage, sessionList, reply,
                   now, issued>>

\* what is stored under 'zy-settings' when the window is first opened
InitSettings ==
    /\ now = 0
    /\ InitWindow(createTab(S0, HOME, TRUE, 0))
    /\ \E item \in SettingsItems :
           localStorage = [k \in StorageKeys |->
                              IF k = "zy-settings" THEN item ELSE Absent]
    /\ currentSettings = defaultSettings
    /\ sessionList = << >>
    /\ reply = NoReply
    /\ listening = {"index"}
    /\ fmtIn = << >>
    /\ fmtOut = ""
    /\ issued = {0}
    /\ last = Found("openSettings", NoTab, FALSE)

NextSettings ==
    SettingsLoaded \/ ChangeSetting \/ ClickChangeLocation \/ ReopenSettings

SpecSettings == InitSettings /\ [][NextSettings]_vars

----------------------------------------------------------------------------
(* The browser window is loaded with sessions in localStorage *)

\* DOMContentLoaded of the browser window: the listeners of the controls
\* are attached, then SidebarManager.init() runs setupSessions, which
\* attaches the listener of #btn-save-session and calls loadSessions(),
\* then TabManager.createTab(). An exception of loadSessions ends the
\* listener there.
DOMContentLoaded ==
    /\ "index" \notin listening
    /\ LET loaded == loadSessions(localStorage)
           r == IF loaded.threw THEN [St EXCEPT !.threw = TRUE]
                ELSE createTab(St, HOME, TRUE, now)
       IN  /\ AssignWindow(r)
           /\ sessionList' = IF loaded.threw THEN sessionList
                             ELSE loaded.list
           /\ issued' = IF loaded.threw THEN issued ELSE issued \cup {now}
           /\ last' = Found("DOMContentLoaded", NoTab, r.threw)
    /\ listening' = listening \cup {"index"}
    /\ UNCHANGED <<fmt, localStorage, currentSettings, reply, now>>

\* click on #btn-save-session: the session is appended to the stored ones
\* and loadSessions() renders them
ClickSaveSession ==
    /\ "index" \in listening
    /\ Len(ParseSessions(localStorage).props) < MaxSessions
    /\ LET saved == saveSession(Clicked, localStorage, now)
       IN  /\ localStorage' = saved.storage
           /\ sessionList' = IF saved.threw THEN sessionList
                             ELSE loadSessions(saved.storage).list
           /\ last' = Found("saveSession", NoTab, saved.threw)
    /\ AssignWindow(Clicked)
    /\ UNCHANGED <<fmt, currentSettings, listening, reply, now, issued>>

\* the page is parsed, DOMContentLoaded has not fired; some item is stored
\* under 'zy-sessions'
InitSessions ==
    /\ now = 0
    /\ InitWindow(S0)
    /\ \E item \in SessionItems :
           localStorage = [k \in StorageKeys |->
                              IF k = "zy-sessions" THEN item ELSE Absent]
    /\ currentSettings = defaultSettings
    /\ sessionList = << >>
    /\ reply = NoReply
    /\ listening = {}
    /\ fmtIn = << >>
    /\ fmtOut = ""
    /\ issued = {}
    /\ last = Found("parse", NoTab, FALSE)

NextSessions ==
    DOMContentLoaded \/ ClickSaveSession \/ Tick \/ ClickNewTab \/ ClickClose

SpecSessions == InitSessions /\ [][NextSessions]_vars

----------------------------------------------------------------------------
(* A renderer invokes 'save-screenshot' *)

\* ipcRenderer.invoke('save-screenshot', payload) while the browser is in
\* use; the history records the payload and whether the file system
\* accepted the write
InvokeSaveScreenshot ==
    \E payload \in Payloads, writable \in BOOLEAN :
        /\ reply' = saveScreenshot(payload, now, writable)
        /\ last' = [Found("saveScreenshot", NoTab,
                          saveScreenshot(payload, now, writable).settled
                              = "rejected")
                       EXCEPT !.arg = payload, !.flag = writable]
        /\ UNCHANGED <<prog, chrome, fmt, localStorage, currentSettings,
                       sessionList, listening, now, issued>>

NextShot == Tick \/ ClickNewTab \/ ClickClose \/ InvokeSaveScreenshot

SpecShot == Init /\ [][NextShot]_vars

----------------------------------------------------------------------------
(* Events of a webview whose tab has been closed *)

\* closeTab removes the webview from the document and leaves its listeners
\* (lines 435-441) attached; each closes over the tab's id.  The ids of the
\* closed tabs: createTab has returned them and no tab carries them now.
ClosedIds == issued \ {tabs[i].id : i \in DOMAIN tabs}

\* the history of a listener of a closed tab's webview
FoundLate(op, id, arg) ==
    [Found(op, id, FALSE) EXCEPT !.arg = arg, !.flag = TRUE]

\* 'did-start-loading' / 'did-stop-loading' of a closed tab's webview
LateLoading ==
    \E id \in ClosedIds, isLoading \in BOOLEAN :
        /\ ~isLoading => pendingResets < MaxTimers
        /\ Assign(updateLoading(St, id, isLoading))
        /\ last' = FoundLate("updateLoading", id,
                             IF isLoading THEN "true" ELSE "false")
        /\ UNCHANGED <<now, issued>>

\* 'page-title-updated' of a closed tab's webview
LateTitle ==
    \E id \in ClosedIds, title \in Titles :
        /\ Assign(updateTitle(St, id, title))
        /\ last' = FoundLate("updateTitle", id, title)
        /\ UNCHANGED <<now, issued>>

\* 'did-navigate' / 'did-navigate-in-page' of a closed tab's webview
LateNavigate ==
    \E id \in ClosedIds, url \in Urls :
        /\ Assign(updateUrl(St, id, url))
        /\ last' = FoundLate("updateUrl", id, url)
        /\ UNCHANGED <<now, issued>>

NextLate ==
    \/ Tick
    \/ OpenTab(FALSE)
    \/ ClickTab
    \/ ClickClose
    \/ PageTitleUpdated
    \/ LateLoading
    \/ LateTitle
    \/ LateNavigate

SpecLate == Init /\ [][NextLate]_vars

----------------------------------------------------------------------------
(* Load and navigation events together, with two tabs open: a webview's  *)
(* history changes with its did-navigate events                          *)

\* DOMContentLoaded at time 0, then a click on #btn-new-tab at time 1
InitTwoTabs ==
    /\ now = 1
    /\ InitWindow(createTab(createTab(S0, HOME, TRUE, 0), HOME, TRUE, 1))
    /\ InitStore
    /\ listening = {"index"}
    /\ fmtIn = << >>
    /\ fmtOut = ""
    /\ issued = {0, 1}
    /\ last = [Found("createTab", 1, FALSE) EXCEPT !.arg = HOME,
                                                   !.flag = TRUE]

NextHistory ==
    \/ ClickTab
    \/ ClickClose
    \/ DidStartLoading
    \/ DidStopLoading
    \/ Timeout
    \/ DidNavigate

SpecHistory == InitTwoTabs /\ [][NextHistory]_vars

----------------------------------------------------------------------------
(* Vocabulary of the properties *)

Live(id) == \E i \in DOMAIN tabs : tabs[i].id = id

\* A webview is visible unless its style.display is 'none'.
VisibleViews(vs) == {k \in DOMAIN vs : vs[k].display # "none"}

ActiveButtons(bs) == {k \in DOMAIN bs : bs[k].active}

\* No two open tabs share an id.
DistinctIds ==
    \A i, j \in DOMAIN tabs : tabs[i].id = tabs[j].id => i = j

\* isValidUrl, lines 57-64: new URL(string) succeeds with the protocol
\* http: or https:.  The parser drops tabs and surrounding spaces, takes the
\* scheme in either case and wants a host after it; a space may stand in
\* the path (after a later '://') but not in the host.
RECURSIVE Without(_, _)
Without(text, c) ==
    IF text = << >> THEN << >>
    ELSE IF Head(text) = c THEN Without(Tail(text), c)
    ELSE <<Head(text)>> \o Without(Tail(text), c)

isValidUrl(string) ==
    LET s == Trim(Without(string, "\t"))
    IN  /\ Len(s) >= 2
        /\ s[1] \in Schemes
        /\ \A i \in 2..Len(s) :
               s[i] = " " => \E j \in 2..(i - 1) : s[j] \in Schemes

\* formatUrl has returned for the text fmtIn
Formatted == last.op = "formatUrl" /\ ~last.threw /\ fmtIn # Missing

----------------------------------------------------------------------------
(* Properties *)

\* C1: closeTab never empties the tab sequence; with exactly one tab open,
\* closeTab(id) changes nothing (tabs, activeTabId, buttons, views, layout).
C1_CloseLastTabIsNoOp ==
    [][last'.op = "closeTab" =>
          /\ Len(tabs') >= 1
          /\ (Len(tabs) = 1 => UNCHANGED prog)]_vars

\* C1 witness: closeTab has run while exactly one tab was open.
C1_Witness ==
    last.op = "closeTab" /\ last.len = 1 /\ Len(tabs) = 1

\* C2: every id createTab returns differs from every id it returned before.
C2_IdsPairwiseDistinct ==
    [][last'.op = "createTab" => last'.id \notin issued]_vars

\* C3: after switchTab(x) with x open, exactly one button is active, the
\* button of x, and one view is visible in normal mode, two in split mode:
\* the view of x and the split partner's.  (Stated for the states in which
\* the split layout, when flagged, is engaged with an open partner.)
C3_SwitchTabVisibility ==
    (/\ last.op = "switchTab" /\ Live(last.id)
     /\ isSplitView => (containerDisplay = "grid" /\ Live(splitTabId))) =>
        /\ ActiveButtons(tabBar) = {GetElementById(tabBar, last.id)}
        /\ IF isSplitView
           THEN /\ Cardinality(VisibleViews(views)) = 2
                /\ VisibleViews(views) =
                      {GetElementById(views, last.id),
                       GetElementById(views, splitTabId)}
           ELSE VisibleViews(views) = {GetElementById(views, last.id)}

\* C4: closing the active tab activates the tab that followed it in the
\* sequence (the one now at its index), or the one before it if it was last.
C4_CloseActiveSelectsNeighbor ==
    [][(last'.op = "closeTab" /\ Len(tabs) > 1 /\ activeTabId = last'.id) =>
          LET i == FindIndex(tabs, last'.id)
          IN  /\ i >= 1
              /\ activeTabId' = IF i < Len(tabs) THEN tabs[i + 1].id
                                ELSE tabs[i - 1].id
              /\ activeTabId' = tabs'[IF i <= Len(tabs') THEN i ELSE i - 1].id
              /\ ~last'.threw]_vars

\* C4 witness: the active tab was the last of three and has been closed.
C4_Witness ==
    /\ last.op = "closeTab" /\ last.wasActive
    /\ last.len = 3 /\ last.index = 3
    /\ Len(tabs) = 2 /\ DistinctIds /\ activeTabId = tabs[2].id

C6_CloseUnknownIsNoOp ==
    [][(last'.op = "closeTab" /\ ~Live(last'.id) /\ Len(tabs) >= 1) =>
          (UNCHANGED prog /\ ~last'.threw)]_vars

\* C7: switchTab(id) with an id of no open tab leaves activeTabId, the
\* active markers and the visibility of every view as they were.
C7_SwitchUnknownKeepsState ==
    [][(last'.op = "switchTab" /\ ~Live(last'.id)) =>
          /\ activeTabId' = activeTabId
          /\ ActiveButtons(tabBar') = ActiveButtons(tabBar)
          /\ VisibleViews(views') = VisibleViews(views)]_vars

\* C8: after the split toggle is clicked with exactly one tab open, the
\* container is in single-pane layout, exactly one view is visible, the
\* active tab's, and splitTabId is unset.
C8_ToggleWithOneTab ==
    (last.op = "toggleSplit" /\ last.len = 1) =>
        /\ containerDisplay = "block"
        /\ splitTabId = NoTab
        /\ Cardinality(VisibleViews(views)) = 1
        /\ VisibleViews(views) = {GetElementById(views, activeTabId)}
        /\ ~last.threw

\* C8 witness: the toggle was clicked with one tab open.
C8_Witness ==
    last.op = "toggleSplit" /\ last.len = 1 /\ Len(tabs) = 1 /\ isSplitView

\* C9: while isSplitView is true (stated for the states in which the split
\* layout is engaged), splitTabId is an open tab other than the active one.
C9_SplitPartnerLiveAndDistinct ==
    (isSplitView /\ containerDisplay = "grid") =>
        (Live(splitTabId) /\ splitTabId # activeTabId)

\* C10: one view is visible in normal mode and two in split mode (stated for
\* the states in which the flag agrees with the layout).
C10_VisibleViewsMatchPanes ==
    (Len(tabs) >= 1 /\ (isSplitView <=> containerDisplay = "grid"))
        => Cardinality(VisibleViews(views)) = IF isSplitView THEN 2 ELSE 1

\* C11: in every state the view of the active tab is visible, also right
\* after the split toggle has enabled split view with three tabs open.
C11_ActiveViewVisible ==
    Live(activeTabId) =>
        GetElementById(views, activeTabId) \in VisibleViews(views)

\* The elements with the id of tabId among els.
ElementsOf(els, tabId) == {k \in DOMAIN els : els[k].id = tabId}

ActiveViewLoading ==
    LET v == GetElementById(views, activeTabId)
    IN  v # 0 /\ views[v].loading

\* C13: in every state the loading bar shows 'loading' exactly when the
\* active tab's webview is loading, also after a tab was switched to,
\* created or closed while some webview was loading.
C13_LoadingBarTracksActiveView ==
    loadingBar.loading <=> ActiveViewLoading

\* C14: a did-start-loading or did-stop-loading from a tab other than the
\* active one leaves the loading bar, its pending callbacks and the
\* disabled state of the back and forward buttons as they were.
C14_LoadingOfOtherTabIgnored ==
    [][(last'.op = "updateLoading" /\ last'.id # activeTabId) =>
          UNCHANGED <<loadingBar, pendingResets,
                      btnBackDisabled, btnForwardDisabled>>]_vars

\* C14 witness: a tab that is not active has reported the end of a load
\* while the active tab's own load is still shown by the bar.
C14_Witness ==
    /\ last.op = "updateLoading"
    /\ last.arg = "false"
    /\ last.id # activeTabId
    /\ Live(last.id)
    /\ loadingBar.loading

\* What a page-title-updated event is to leave behind, given the label the
\* tab's button is to carry: the label on the button of the event's tab,
\* the window title made from the title if that tab is active and untouched
\* otherwise, and nothing more to do for the same event delivered again.
TitleEventDone(label) ==
    LET id == last'.id
        b  == GetElementById(tabBar', id)
        again == updateTitle(St', id, last'.arg)
    IN  /\ b # 0
        /\ tabBar'[b].title = label
        /\ IF id = activeTabId
           THEN docTitle' = last'.arg \o " - Zy Browser"
           ELSE docTitle' = docTitle
        /\ again.tabBar = tabBar'
        /\ again.docTitle = docTitle'

\* C15 as stated: a page-title-updated event sets the label of its tab's
\* button to the reported title, sets the window title only if the tab is
\* active, and is idempotent.
C15_TitleEventSetsLabel ==
    [][last'.op = "updateTitle" => TitleEventDone(last'.arg)]_vars

\* C15 amended: the same, with the label 'Untitled' when the reported title
\* is empty.
C15_TitleEventSetsLabelOrUntitled ==
    [][last'.op = "updateTitle" =>
          TitleEventDone(IF last'.arg = "" THEN "Untitled" ELSE last'.arg)]_vars

\* C15 witness: a tab that is not active has reported the title T1 and
\* carries it, while the window title is still the one made from T2.
C15_Witness ==
    /\ last.op = "updateTitle"
    /\ last.arg = "T1"
    /\ last.id # activeTabId
    /\ \E k \in DOMAIN tabBar : tabBar[k].id = last.id /\ tabBar[k].title = "T1"
    /\ docTitle = "T2 - Zy Browser"

\* C16: a did-navigate or did-navigate-in-page event of the active tab puts
\* the event's address into the address bar and sets the back and forward
\* buttons from the active webview's history; the same event of another tab
\* leaves the address bar and both buttons as they were.
C16_NavigationEventOfActiveTabOnly ==
    [][last'.op = "updateUrl" =>
          IF last'.id = activeTabId
          THEN LET w == GetElementById(views', activeTabId)
               IN  /\ urlInput' = last'.arg
                   /\ w # 0
                   /\ btnBackDisabled' = ~views'[w].canGoBack
                   /\ btnForwardDisabled' = ~views'[w].canGoForward
          ELSE UNCHANGED <<urlInput, btnBackDisabled, btnForwardDisabled>>]_vars

\* C16 witness: a tab that is not active has navigated to an address other
\* than the one in the address bar and can now go back, while the back
\* button is disabled.
C16_Witness ==
    /\ last.op = "updateUrl"
    /\ last.id # activeTabId
    /\ last.arg # urlInput
    /\ \E k \in DOMAIN views :
           views[k].id = last.id /\ views[k].canGoBack /\ btnBackDisabled

\* C17: when switchTab runs (on its own or at the end of createTab) while
\* the address bar has the focus and holds a typed text, the text stays;
\* otherwise the address bar shows the address of the now active webview.
C17_SwitchTabSparesFocusedAddressBar ==
    [][last'.op \in {"switchTab", "createTab"} =>
          IF urlFocused /\ urlFocused' /\ urlInput \in Typed
          THEN urlInput' = urlInput
          ELSE LET w == GetElementById(views', activeTabId')
               IN  w # 0 /\ urlInput' = views'[w].url]_vars

\* C18: formatUrl maps the empty text and every text of whitespace only to
\* the home address.
C18_BlankInputGoesHome ==
    (Formatted /\ Trim(fmtIn) = << >>) => fmtOut = HOME

\* C19: formatUrl returns unchanged every text that is an absolute http or
\* https URL (stated for the URLs without whitespace), also one whose host
\* has no dot.
C19_AbsoluteUrlUnchanged ==
    (Formatted /\ isValidUrl(fmtIn)
               /\ \A i \in DOMAIN fmtIn : fmtIn[i] \notin Whitespace) =>
        fmtOut = Str(fmtIn)

\* C20: for a text that is not an absolute http or https URL (stated for
\* the non-empty texts that neither begin nor end with whitespace),
\* formatUrl returns "https://" and the text if the text has a dot and no
\* whitespace, and the search address with the encoded text otherwise.
C20_BareDomainOrSearch ==
    (Formatted /\ fmtIn # << >> /\ Trim(fmtIn) = fmtIn /\ ~isValidUrl(fmtIn)) =>
        IF Includes(fmtIn, ".") /\ \A i \in DOMAIN fmtIn : fmtIn[i] \notin Whitespace
        THEN fmtOut = "https://" \o Str(fmtIn)
        ELSE fmtOut = SEARCH \o Str(encodeURIComponent(fmtIn))

\* C21: formatUrl returns an address for every input, a missing one
\* included, and never throws.
C21_FormatUrlTotal ==
    last.op = "formatUrl" => (~last.threw /\ fmtOut # "")

\* The ids of a sequence of records or elements, in order.
IdsOf(seq) == [k \in DOMAIN seq |-> seq[k].id]

\* C22: createTab(url, activate) appends one tab with the returned id and
\* the url to the end of state.tabs, appends its button and its webview
\* with src = url, leaves the tabs, buttons and webviews that were there in
\* their order, and does not throw; with activate the returned id is the
\* active one afterwards (and the new button carries the active mark when
\* no other element has its id), without activate activeTabId is unchanged.
C22_CreateTabAppendsOne ==
    [][last'.op = "createTab" =>
          LET n == Len(tabs) + 1
          IN  /\ ~last'.threw
              /\ Len(tabs') = n
              /\ SubSeq(tabs', 1, n - 1) = tabs
              /\ tabs'[n].id = last'.id
              /\ tabs'[n].url = last'.arg
              /\ IdsOf(tabBar') = Append(IdsOf(tabBar), last'.id)
              /\ IdsOf(views') = Append(IdsOf(views), last'.id)
              /\ views'[Len(views')].src = last'.arg
              /\ \A k \in DOMAIN views : views'[k].src = views[k].src
              /\ IF last'.flag
                 THEN /\ activeTabId' = last'.id
                      /\ ElementsOf(tabBar, last'.id) = {} =>
                             ActiveButtons(tabBar') = {Len(tabBar')}
                 ELSE activeTabId' = activeTabId]_vars

\* C22 witness: createTab was called without activate while another tab
\* was active, and the new tab is the last of two or more.
C22_Witness ==
    /\ last.op = "createTab"
    /\ ~last.flag
    /\ Len(tabs) >= 2
    /\ tabs[Len(tabs)].id = last.id
    /\ activeTabId # last.id

\* C23: after a 'new-window' event of any webview, state.tabs is one longer,
\* its last tab has the requested address, as has that tab's webview, and
\* is the active tab; the webview the event came from keeps its src and its
\* address.
C23_NewWindowOpensActiveTab ==
    [][(last'.op = "createTab" /\ last'.index # 0) =>
          LET n == Len(tabs) + 1
              k == last'.index
          IN  /\ Len(tabs') = n
              /\ tabs'[n].url = last'.arg
              /\ views'[n].src = last'.arg
              /\ activeTabId' = tabs'[n].id
              /\ views'[k].id = views[k].id
              /\ views'[k].src = views[k].src
              /\ views'[k].url = views[k].url]_vars

\* C23 witness: the event came from the webview of a tab that was not the
\* active one, asking for an address other than the home page.
C23_Witness ==
    /\ last.op = "createTab"
    /\ last.index # 0
    /\ ~last.wasActive
    /\ last.arg # HOME
    /\ Len(tabs) = 3

\* C24: a click on back, forward or reload calls the method on the webview
\* of the tab that is active at that moment and on no other; goBack is
\* called only if that webview can go back, goForward only if it can go
\* forward; nothing else changes.
C24_NavigationActsOnActiveView ==
    [][last'.op \in {"reload", "goBack", "goForward"} =>
          LET w == GetElementById(views, activeTabId)
              called == \/ last'.op = "reload"
                        \/ last'.op = "goBack" /\ views[w].canGoBack
                        \/ last'.op = "goForward" /\ views[w].canGoForward
          IN  /\ w # 0
              /\ views[w].id = activeTabId
              /\ last'.index = IF called THEN w ELSE 0
              /\ UNCHANGED prog]_vars

\* C24 witness: with two tabs open and the second one active, forward was
\* clicked and called on the second webview, while the first webview could
\* go forward as well.
C24_Witness ==
    /\ last.op = "goForward"
    /\ Len(views) = 2
    /\ views[1].id # views[2].id
    /\ views[1].canGoForward
    /\ activeTabId = views[2].id
    /\ last.index = 2

\* C24 witness of the guard: back was clicked while its button was enabled
\* but the active webview could no longer go back; nothing was called.
C24_WitnessGuard ==
    /\ last.op = "goBack"
    /\ last.index = 0

\* C25: Enter in the address bar sets the src of the active tab's webview
\* to formatUrl of the typed text, leaves every other webview alone, and
\* leaves the address bar without the focus.
C25_EnterLoadsFormattedText ==
    [][last'.op = "enter" =>
          LET w == GetElementById(views, activeTabId)
          IN  /\ w # 0
              /\ views'[w] = [views[w] EXCEPT
                                !.src = Str(formatUrl(TextOf(urlInput)))]
              /\ \A k \in DOMAIN views : k # w => views'[k] = views[k]
              /\ ~urlFocused']_vars

\* C26: after Escape in the focused address bar the text is the address of
\* the active tab's webview, and no webview has been given a new src.
C26_EscapeRestoresAddress ==
    [][last'.op = "escape" =>
          LET w == GetElementById(views, activeTabId)
          IN  /\ w # 0
              /\ urlInput' = views[w].url
              /\ views' = views]_vars

\* the item loadSettings has just read
Saved == localStorage["zy-settings"]

\* what a recognized field holds when the stored record does not have it
DefaultOf(key) ==
    IF key = "location" THEN DOWNLOADS ELSE defaultSettings[key]

\* C27: loading persisted settings never aborts startup: loadSettings does
\* not throw and the controls get their listeners; every recognized field
\* has a value afterwards; a stored record is merged over the defaults (a
\* field it has keeps the stored value, a field it lacks gets the default,
\* an unknown key does no harm); a stored text that is not JSON leaves the
\* defaults.
C27_LoadSettingsNeverAborts ==
    last.op = "loadSettings" =>
        /\ ~last.threw
        /\ "settings" \in listening
        /\ \A key \in Recognized :
               key \in DOMAIN currentSettings /\ currentSettings[key] # ""
        /\ (Saved.kind = "json" /\ Saved.value.type = "object") =>
               \A key \in Recognized :
                   currentSettings[key] =
                       IF key \in DOMAIN Saved.value.props
                       THEN Saved.value.props[key]
                       ELSE DefaultOf(key)
        /\ Saved.kind = "malformed" =>
               currentSettings = [key \in Recognized |-> DefaultOf(key)]

\* C27 witness: loadSettings has read a stored record that lacks a
\* recognized key, has another one and has a key this version does not know.
C27_Witness ==
    /\ last.op = "loadSettings"
    /\ Saved.kind = "json"
    /\ Saved.value.type = "object"
    /\ "theme" \notin DOMAIN Saved.value.props
    /\ "searchEngine" \in DOMAIN Saved.value.props
    /\ "legacy" \in DOMAIN Saved.value.props
    /\ currentSettings.searchEngine = "bing"

\* C28: a stored sessions text that is not JSON is tolerated: the
\* DOMContentLoaded listener completes (sidebar initialisation, then the
\* initial tab), and a click on the save button stores the session and
\* shows it.
C28_CorruptSessionsTolerated ==
    [][(/\ localStorage["zy-sessions"].kind = "malformed"
        /\ last'.op \in {"DOMContentLoaded", "saveSession"}) =>
           /\ ~last'.threw
           /\ Len(tabs') >= 1
           /\ last'.op = "saveSession" =>
                  /\ localStorage'["zy-sessions"].kind = "json"
                  /\ Len(sessionList') = 1]_vars

\* C29: saveScreenshot never throws to its caller: the promise of
\* invoke('save-screenshot') resolves, to {success: true, path} when the
\* file was written and to {success: false, error} when a step failed.
C29_SaveScreenshotNeverThrows ==
    last.op = "saveScreenshot" =>
        /\ reply.settled = "resolved"
        /\ reply.success <=> (last.arg = "{buffer}" /\ last.flag)
        /\ reply.success => reply.value = FilePath(now)
        /\ ~reply.success => reply.value \in {"TypeError", "EACCES"}

\* the split-view button has been clicked while at least two tabs were open
ToggledWithTwo == last'.op = "toggleSplit" /\ Len(tabs) >= 2

\* the click has enabled split view: two panes showing exactly the views of
\* the first two tabs, splitTabId the second tab
SplitEnabled ==
    /\ isSplitView'
    /\ containerDisplay' = "grid"
    /\ splitTabId' = tabs[2].id
    /\ VisibleViews(views') = {GetElementById(views, tabs[1].id),
                        GetElementById(views, tabs[2].id)}
    /\ 0 \notin VisibleViews(views')
    /\ activeTabId' = activeTabId
    /\ tabs' = tabs

\* the click has disabled split view: one pane, splitTabId cleared, exactly
\* the active tab's view shown
SplitDisabled ==
    /\ ~isSplitView'
    /\ containerDisplay' = "block"
    /\ splitTabId' = NoTab
    /\ VisibleViews(views') = {GetElementById(views, activeTabId)}
    /\ 0 \notin VisibleViews(views')
    /\ activeTabId' = activeTabId
    /\ tabs' = tabs

\* the listener follows its flag: with at least two tabs open, a click
\* while state.isSplitView is false enables split view and a click while it
\* is true disables it
ToggleFollowsFlag ==
    [][ToggledWithTwo =>
          IF isSplitView THEN SplitDisabled ELSE SplitEnabled]_vars

\* C30: with at least two tabs open, a click on the split-view button while
\* one pane is shown enables split view (the first two tabs side by side,
\* splitTabId the second), and a click while two panes are shown disables
\* it (one pane, splitTabId cleared, exactly the active tab's view shown);
\* neither changes activeTabId.
C30_ToggleSplitEnablesThenDisables ==
    [][ToggledWithTwo =>
          IF containerDisplay = "grid" THEN SplitDisabled
          ELSE SplitEnabled]_vars

\* C31: the split-view flag agrees with the layout: isSplitView is true
\* only if at least two tabs exist, the container shows two panes and
\* splitTabId is set.
C31_SplitFlagAgreesWithLayout ==
    isSplitView =>
        /\ Len(tabs) >= 2
        /\ containerDisplay = "grid"
        /\ splitTabId # NoTab

C33_IsLoadingFollowsLoadEvents ==
    [][last'.op = "updateLoading" /\ ~last'.flag =>
          \A i \in DOMAIN tabs' :
              tabs'[i].id = last'.id =>
                  tabs'[i].isLoading = (last'.arg = "true")]_vars

\* C34: a tab's url follows its webview's navigation events: after
\* 'did-navigate' or 'did-navigate-in-page' of tab t with the address u,
\* t.url is u, whether or not t is the active tab.
C34_TabUrlFollowsNavigation ==
    [][last'.op = "updateUrl" /\ ~last'.flag =>
          \A i \in DOMAIN tabs' :
              tabs'[i].id = last'.id => tabs'[i].url = last'.arg]_vars

\* a handler that recomputes the navigation buttons has just run: load
\* finished or navigated for the active tab, or a click on a tab button
Recomputed ==
    \/ /\ last'.op = "updateLoading"
       /\ last'.arg = "false"
       /\ ~last'.flag
       /\ last'.id = activeTabId
    \/ /\ last'.op = "updateUrl"
       /\ ~last'.flag
       /\ last'.id = activeTabId
    \/ last'.op = "switchTab"

\* C35: after a load-finished or navigation event of the active tab and
\* after a switch of tabs, the back button is enabled exactly when the
\* active webview can go back, the forward button exactly when it can go
\* forward.
C35_ButtonsFollowActiveHistory ==
    [][Recomputed =>
          LET w == GetElementById(views', activeTabId')
          IN  /\ w # 0
              /\ btnBackDisabled' = ~views'[w].canGoBack
              /\ btnForwardDisabled' = ~views'[w].canGoForward]_vars

\* C35 witness: the load of the active tab has finished; its webview can go
\* forward and not back, and another tab's webview can go back.
C35_Witness ==
    /\ last.op = "updateLoading"
    /\ last.arg = "false"
    /\ last.id = activeTabId
    /\ btnBackDisabled
    /\ ~btnForwardDisabled
    /\ \E k \in DOMAIN views :
           views[k].id # activeTabId /\ views[k].canGoBack

\* closeTab(t) has run on a live tab t with more than one tab open
ClosedLiveTab ==
    last'.op = "closeTab" /\ last'.len > 1 /\ last'.index # 0

\* C36: closeTab(t) for a live tab t, with more than one tab open, removes
\* exactly t (its record, its button, its view) and keeps the order of the
\* rest; if t was not the active tab, activeTabId, the active marker and
\* the visibility of the remaining views are unchanged.
C36_CloseTabRemovesExactlyThatTab ==
    [][ClosedLiveTab =>
          LET b == GetElementById(tabBar, last'.id)
              v == GetElementById(views, last'.id)
          IN  /\ ~last'.threw
              /\ tabs' = RemoveAt(tabs, last'.index)
              /\ IdsOf(tabBar') = IdsOf(RemoveAt(tabBar, b))
              /\ IdsOf(views') = IdsOf(RemoveAt(views, v))
              /\ ~last'.wasActive =>
                     /\ activeTabId' = activeTabId
                     /\ tabBar' = RemoveAt(tabBar, b)
                     /\ views' = RemoveAt(views, v)]_vars

\* C36 witness: the middle one of three tabs with distinct ids, not the
\* active one, has been closed.
C36_Witness ==
    /\ last.op = "closeTab"
    /\ last.len = 3
    /\ last.index = 2
    /\ ~last.wasActive
    /\ ~last.threw
    /\ Len(tabs) = 2
    /\ tabs[1].id # tabs[2].id
    /\ last.id \notin {tabs[1].id, tabs[2].id}

\* the titles a page can report that are not empty
ReportedTitles == Titles \ {""}

\* C37: the window title is the one of the active tab: when the active
\* tab's button carries a title its page has reported, document.title is
\* that title followed by ' - Zy Browser' (tab ids distinct).
C37_WindowTitleOfActiveTab ==
    DistinctIds =>
        \A b \in DOMAIN tabBar :
            (tabBar[b].id = activeTabId /\ tabBar[b].title \in ReportedTitles)
                => docTitle = WindowTitle(tabBar[b].title)

\* C38: however load-started events, load-finished events and the delayed
\* callbacks interleave, the loading bar never carries 'loading' and
\* 'complete' together, and a callback never removes 'loading'.
C38_LoadingBarMarkersExclusive ==
    /\ [](~(loadingBar.loading /\ loadingBar.complete))
    /\ [][last'.op = "timeout" =>
              loadingBar'.loading = loadingBar.loading]_vars

\* C38 witness: a callback set by an earlier load-finished event has run
\* after a newer load of the active tab started, with another callback
\* still pending.
C38_Witness ==
    /\ last.op = "timeout"
    /\ loadingBar.loading
    /\ ~loadingBar.complete
    /\ pendingResets > 0

====
